---- MODULE Spec2Model ----
(***************************************************************************)
(* Byte-level BPE tokenizer (bpe/base.py, bpe/regex.py).                   *)
(*                                                                         *)
(* Text is a sequence of Unicode codepoints, bytes and token ids are       *)
(* integers.  A Python dict is a sequence of entries in insertion order    *)
(* (CPython >= 3.7), because max(), min(), the regex alternation and the   *)
(* save loops all depend on that order.                                    *)
(***************************************************************************)
EXTENDS Integers, Sequences, FiniteSets, TLC

\* ------------------------------------------------------------- bounds
MaxTrainLen == 4      \* codepoints in a training corpus
MaxTextLen == 3       \* codepoints in a text given to encode / encode_ordinary
MaxMerges == 2        \* vocab_size - 256 asked of train
MaxIdsLen == 2        \* ids given to decode
MaxChunkLen == 3      \* bytes given to _encode_chunk
MaxMergeLen == 4      \* ids given to merge
MaxPersistLen == 2    \* codepoints in a training corpus of the persistence runs

\* ---------------------------------------------------- program constants
NumBytes == 256       \* the raw byte ids 0..255
Infinity == 1000000   \* float("inf"): above every token id

\* 'a', ' ', '<', U+00E9 (two UTF-8 bytes)
Alphabet == {97, 32, 60, 233}

SeqsUpTo(S, n) == UNION {[1..k -> S] : k \in 0..n}

\* ------------------------------------------------------------- UTF-8
ReplacementChar == 65533

\* str.encode("utf-8") of one codepoint
Utf8Char(c) ==
  IF c < 128 THEN <<c>>
  ELSE IF c < 2048 THEN <<192 + (c \div 64), 128 + (c % 64)>>
  ELSE IF c < 65536 THEN <<224 + (c \div 4096), 128 + ((c \div 64) % 64), 128 + (c % 64)>>
  ELSE <<240 + (c \div 262144), 128 + ((c \div 4096) % 64),
         128 + ((c \div 64) % 64), 128 + (c % 64)>>

RECURSIVE Utf8Encode(_)
Utf8Encode(text) ==
  IF text = <<>> THEN <<>> ELSE Utf8Char(Head(text)) \o Utf8Encode(Tail(text))

IsCont(b) == b \in 128..191

\* the lowest second byte a lead byte accepts, and the highest
SecondLo(b) == IF b = 224 THEN 160 ELSE IF b = 240 THEN 144 ELSE 128
SecondHi(b) == IF b = 237 THEN 159 ELSE IF b = 244 THEN 143 ELSE 191

\* bytes.decode("utf-8", errors="replace"): every maximal invalid prefix of a
\* character becomes one U+FFFD
RECURSIVE Utf8Decode(_)
Utf8Decode(bs) ==
  IF bs = <<>> THEN <<>>
  ELSE LET b == bs[1]
           n == Len(bs)
           need == IF b < 128 THEN 1
                   ELSE IF b \in 194..223 THEN 2
                   ELSE IF b \in 224..239 THEN 3
                   ELSE IF b \in 240..244 THEN 4
                   ELSE 0
           ok2 == n >= 2 /\ bs[2] \in SecondLo(b)..SecondHi(b)
           ok3 == ok2 /\ n >= 3 /\ IsCont(bs[3])
           ok4 == ok3 /\ n >= 4 /\ IsCont(bs[4])
       IN  IF need = 1 THEN <<b>> \o Utf8Decode(Tail(bs))
           ELSE IF need = 0 THEN <<ReplacementChar>> \o Utf8Decode(Tail(bs))
           ELSE IF need = 2 THEN
             IF ok2 THEN <<(b - 192) * 64 + (bs[2] - 128)>> \o Utf8Decode(SubSeq(bs, 3, n))
             ELSE <<ReplacementChar>> \o Utf8Decode(Tail(bs))
           ELSE IF need = 3 THEN
             IF ok3 THEN <<(b - 224) * 4096 + (bs[2] - 128) * 64 + (bs[3] - 128)>>
                         \o Utf8Decode(SubSeq(bs, 4, n))
             ELSE IF ok2 THEN <<ReplacementChar>> \o Utf8Decode(SubSeq(bs, 3, n))
             ELSE <<ReplacementChar>> \o Utf8Decode(Tail(bs))
           ELSE
             IF ok4 THEN <<(b - 240) * 262144 + (bs[2] - 128) * 4096
                           + (bs[3] - 128) * 64 + (bs[4] - 128)>>
                         \o Utf8Decode(SubSeq(bs, 5, n))
             ELSE IF ok3 THEN <<ReplacementChar>> \o Utf8Decode(SubSeq(bs, 4, n))
             ELSE IF ok2 THEN <<ReplacementChar>> \o Utf8Decode(SubSeq(bs, 3, n))
             ELSE <<ReplacementChar>> \o Utf8Decode(Tail(bs))

\* ------------------------------------------------- the split pattern
\* Character classes of the pattern, for the codepoints below 256.
IsSpace(c) == c \in (9..13) \cup (28..32) \cup {133, 160}
IsLetter(c) == c \in (65..90) \cup (97..122) \cup {170, 181, 186}
                     \cup ((192..255) \ {215, 247})
IsNumber(c) == c \in (48..57) \cup {178, 179, 185, 188, 189, 190}
IsOther(c) == ~IsSpace(c) /\ ~IsLetter(c) /\ ~IsNumber(c)

InClass(c, cls) ==
  CASE cls = "L" -> IsLetter(c)
    [] cls = "N" -> IsNumber(c)
    [] cls = "S" -> IsSpace(c)
    [] OTHER -> IsOther(c)

\* length of the longest run of class cls that starts at t[i]
RECURSIVE RunLen(_, _, _)
RunLen(t, i, cls) ==
  IF i <= Len(t) /\ InClass(t[i], cls) THEN 1 + RunLen(t, i + 1, cls) ELSE 0

\* '(?:[sdmt]|ll|ve|re)
AltContraction(t, i) ==
  IF t[i] # 39 \/ i + 1 > Len(t) THEN 0
  ELSE IF t[i + 1] \in {115, 100, 109, 116} THEN 2
  ELSE IF i + 2 <= Len(t)
          /\ <<t[i + 1], t[i + 2]>> \in {<<108, 108>>, <<118, 101>>, <<114, 101>>}
       THEN 3
  ELSE 0

\* " ?X+" for a class X: an optional space, then a run of the class
AltSpaceRun(t, i, cls) ==
  IF t[i] = 32 /\ RunLen(t, i + 1, cls) > 0 THEN 1 + RunLen(t, i + 1, cls)
  ELSE RunLen(t, i, cls)

\* \s+(?!\S): a whitespace run that is not followed by a non-space; the run
\* gives back its last character when a non-space follows it
AltSpaceNotBeforeWord(t, i) ==
  LET n == RunLen(t, i, "S")
  IN  IF n = 0 THEN 0
      ELSE IF i + n > Len(t) THEN n
      ELSE n - 1

FirstNonZero(s) ==
  IF \E k \in 1..Len(s) : s[k] > 0
  THEN s[CHOOSE k \in 1..Len(s) : s[k] > 0 /\ \A j \in 1..(k - 1) : s[j] = 0]
  ELSE 0

\* The length GPT2_SPLIT_PATTERN matches at t[i] (0: no match): the first
\* alternative that matches, each one greedy.
MatchLen(t, i) ==
  FirstNonZero(<<AltContraction(t, i),
                 AltSpaceRun(t, i, "L"),
                 AltSpaceRun(t, i, "N"),
                 AltSpaceRun(t, i, "O"),
                 AltSpaceNotBeforeWord(t, i),
                 RunLen(t, i, "S")>>)

\* re.findall(compiled_pattern, text): the matches left to right; a position
\* where nothing matches is skipped
RECURSIVE FindAllFrom(_, _)
FindAllFrom(t, i) ==
  IF i > Len(t) THEN <<>>
  ELSE LET n == MatchLen(t, i)
       IN  IF n = 0 THEN FindAllFrom(t, i + 1)
           ELSE <<SubSeq(t, i, i + n - 1)>> \o FindAllFrom(t, i + n)

FindAll(t) == FindAllFrom(t, 1)

\* re.compile(pattern): GPT4_SPLIT_PATTERN as written holds "(?1\S)", a group
\* call with no closing parenthesis, which the regex module rejects
Compiles(p) == p = "GPT2_SPLIT_PATTERN"

\* --------------------------------------------------------- dict helpers
\* entries are records with a field "key"; order is insertion order
DictHas(d, k) == \E i \in 1..Len(d) : d[i].key = k
DictIndex(d, k) == CHOOSE i \in 1..Len(d) : d[i].key = k
DictGet(d, k) == d[DictIndex(d, k)].val
\* d[k] = v: a present key keeps its place
DictSet(d, k, v) ==
  IF DictHas(d, k) THEN [d EXCEPT ![DictIndex(d, k)].val = v]
  ELSE Append(d, [key |-> k, val |-> v])
DictKeys(d) == {d[i].key : i \in 1..Len(d)}

\* ------------------------------------------------------------ base.py
RECURSIVE StatsFrom(_, _, _)
StatsFrom(ids, i, counts) ==
  IF i >= Len(ids) THEN counts
  ELSE LET pair == <<ids[i], ids[i + 1]>>
           old == IF DictHas(counts, pair) THEN DictGet(counts, pair) ELSE 0
       IN  StatsFrom(ids, i + 1, DictSet(counts, pair, old + 1))

get_stats(ids, counts) == StatsFrom(ids, 1, counts)

RECURSIVE MergeFrom(_, _, _, _, _)
MergeFrom(ids, pair, idx, i, newids) ==
  IF i > Len(ids) THEN newids
  ELSE IF ids[i] = pair[1] /\ i < Len(ids) /\ ids[i + 1] = pair[2]
       THEN MergeFrom(ids, pair, idx, i + 2, Append(newids, idx))
       ELSE MergeFrom(ids, pair, idx, i + 1, Append(newids, ids[i]))

\* merge with the slip "i += 1" after a replacement: the second element of a
\* replaced pair is read again
RECURSIVE MergeNoSkipFrom(_, _, _, _, _)
MergeNoSkipFrom(ids, pair, idx, i, newids) ==
  IF i > Len(ids) THEN newids
  ELSE IF ids[i] = pair[1] /\ i < Len(ids) /\ ids[i + 1] = pair[2]
       THEN MergeNoSkipFrom(ids, pair, idx, i + 1, Append(newids, idx))
       ELSE MergeNoSkipFrom(ids, pair, idx, i + 1, Append(newids, ids[i]))

MergeNoSkip(ids, pair, idx) == MergeNoSkipFrom(ids, pair, idx, 1, <<>>)

merge(ids, pair, idx) == MergeFrom(ids, pair, idx, 1, <<>>)

ByteVocab == [idx \in 0..(NumBytes - 1) |-> <<idx>>]

\* vocab[idx] = bs
VocabSet(vocab, idx, bs) ==
  [k \in DOMAIN vocab \cup {idx} |-> IF k = idx THEN bs ELSE vocab[k]]

RECURSIVE BuildMerges(_, _, _)
BuildMerges(m, i, vocab) ==
  IF i > Len(m) THEN vocab
  ELSE BuildMerges(m, i + 1,
         VocabSet(vocab, m[i].val, vocab[m[i].key[1]] \o vocab[m[i].key[2]]))

RECURSIVE BuildSpecials(_, _, _)
BuildSpecials(s, i, vocab) ==
  IF i > Len(s) THEN vocab
  ELSE BuildSpecials(s, i + 1, VocabSet(vocab, s[i].val, Utf8Encode(s[i].key)))

_build_vocab(m, s) == BuildSpecials(s, 1, BuildMerges(m, 1, ByteVocab))

\* ----------------------------------------------------------- regex.py
\* the chunks of a text as byte lists: [list(ch.encode("utf-8")) for ch in text_chunks]
ChunkBytes(text) == LET chunks == FindAll(text)
                    IN  [i \in 1..Len(chunks) |-> Utf8Encode(chunks[i])]

\* get_stats(chunk_ids, stats) over every chunk, into one dict
RECURSIVE AllStats(_, _, _)
AllStats(ids, i, stats) ==
  IF i > Len(ids) THEN stats ELSE AllStats(ids, i + 1, get_stats(ids[i], stats))

\* max(stats, key=stats.get): the first key, in insertion order, of the highest count
MaxKey(stats) ==
  stats[CHOOSE i \in 1..Len(stats) :
          /\ \A j \in 1..Len(stats) : stats[j].val <= stats[i].val
          /\ \A j \in 1..(i - 1) : stats[j].val < stats[i].val].key

\* train's loop with the slip vocab[idx] = vocab[pair[1]] + vocab[pair[0]]
RECURSIVE TrainLoopSwapped(_, _, _, _, _)
TrainLoopSwapped(i, num_merges, ids, m, v) ==
  IF i >= num_merges THEN [status |-> "ok", merges |-> m, vocab |-> v]
  ELSE LET stats == AllStats(ids, 1, <<>>)
       IN  IF stats = <<>> THEN [status |-> "ValueError", merges |-> m, vocab |-> v]
           ELSE LET pair == MaxKey(stats)
                    idx == NumBytes + i
                IN  TrainLoopSwapped(i + 1, num_merges,
                                     [c \in 1..Len(ids) |-> merge(ids[c], pair, idx)],
                                     DictSet(m, pair, idx),
                                     VocabSet(v, idx, v[pair[2]] \o v[pair[1]]))

\* the loop of train, from round i; max() of an empty dict raises ValueError
RECURSIVE TrainLoop(_, _, _, _, _)
TrainLoop(i, num_merges, ids, m, v) ==
  IF i >= num_merges THEN [status |-> "ok", merges |-> m, vocab |-> v]
  ELSE LET stats == AllStats(ids, 1, <<>>)
       IN  IF stats = <<>> THEN [status |-> "ValueError", merges |-> m, vocab |-> v]
           ELSE LET pair == MaxKey(stats)
                    idx == NumBytes + i
                IN  TrainLoop(i + 1, num_merges,
                              [c \in 1..Len(ids) |-> merge(ids[c], pair, idx)],
                              DictSet(m, pair, idx),
                              VocabSet(v, idx, v[pair[1]] \o v[pair[2]]))

\* train(text, vocab_size) up to the assignments of its last two lines
train(text, vocab_size) ==
  IF vocab_size < NumBytes
  THEN [status |-> "AssertionError", merges |-> <<>>, vocab |-> ByteVocab]
  ELSE TrainLoop(0, vocab_size - NumBytes, ChunkBytes(text), <<>>, ByteVocab)

\* merges.get(p, float("inf"))
MergeRank(m, p) == IF DictHas(m, p) THEN DictGet(m, p) ELSE Infinity

\* _encode_chunk's choice with the slip of taking the first pair of the list
\* that is in the merge table, whatever its id
MinKeyLeftmost(stats, m) ==
  IF \E i \in 1..Len(stats) : DictHas(m, stats[i].key)
  THEN stats[CHOOSE i \in 1..Len(stats) :
               /\ DictHas(m, stats[i].key)
               /\ \A j \in 1..(i - 1) : ~DictHas(m, stats[j].key)].key
  ELSE stats[1].key

\* min(stats, key=...): the first key, in insertion order, of the lowest rank
MinKey(stats, m) ==
  stats[CHOOSE i \in 1..Len(stats) :
          /\ \A j \in 1..Len(stats) : MergeRank(m, stats[j].key) >= MergeRank(m, stats[i].key)
          /\ \A j \in 1..(i - 1) : MergeRank(m, stats[j].key) > MergeRank(m, stats[i].key)].key

\* the values the local ids of _encode_chunk takes, the first one list(text_bytes)
RECURSIVE ChunkSteps(_, _)
ChunkSteps(ids, m) ==
  IF Len(ids) < 2 THEN <<ids>>
  ELSE LET pair == MinKey(get_stats(ids, <<>>), m)
       IN  IF ~DictHas(m, pair) THEN <<ids>>
           ELSE <<ids>> \o ChunkSteps(merge(ids, pair, DictGet(m, pair)), m)

_encode_chunk(text_bytes, m) ==
  LET steps == ChunkSteps(text_bytes, m) IN steps[Len(steps)]

RECURSIVE EncodeChunks(_, _, _)
EncodeChunks(chunks, i, m) ==
  IF i > Len(chunks) THEN <<>>
  ELSE _encode_chunk(chunks[i], m) \o EncodeChunks(chunks, i + 1, m)

encode_ordinary(text, m) == EncodeChunks(ChunkBytes(text), 1, m)

\* token in text
StartsAt(t, i, k) == i + Len(k) - 1 <= Len(t) /\ SubSeq(t, i, i + Len(k) - 1) = k
Occurs(k, t) == \E i \in 1..(Len(t) + 1) : StartsAt(t, i, k)

\* re.split("(k1|k2|...)", text) for literal, non-empty keys: the text between
\* the matches and the matches, in turn; at a position the first key that
\* matches there is taken
RECURSIVE SplitFrom(_, _, _, _)
SplitFrom(t, i, start, keys) ==
  IF i > Len(t) THEN <<SubSeq(t, start, Len(t))>>
  ELSE IF \E k \in 1..Len(keys) : StartsAt(t, i, keys[k])
       THEN LET k == CHOOSE k \in 1..Len(keys) :
                       /\ StartsAt(t, i, keys[k])
                       /\ \A j \in 1..(k - 1) : ~StartsAt(t, i, keys[j])
                n == Len(keys[k])
            IN  <<SubSeq(t, start, i - 1), keys[k]>> \o SplitFrom(t, i + n, i + n, keys)
       ELSE SplitFrom(t, i + 1, start, keys)

\* re.split without the capturing group: the matches are dropped
ReSplitNoCapture(keys, t) ==
  LET parts == SplitFrom(t, 1, 1, keys)
  IN  [i \in 1..((Len(parts) + 1) \div 2) |-> parts[2 * i - 1]]

ReSplit(keys, t) == SplitFrom(t, 1, 1, keys)

RECURSIVE EncodeParts(_, _, _, _)
EncodeParts(parts, i, special, m) ==
  IF i > Len(parts) THEN <<>>
  ELSE (IF DictHas(special, parts[i]) THEN <<DictGet(special, parts[i])>>
        ELSE encode_ordinary(parts[i], m))
       \o EncodeParts(parts, i + 1, special, m)

SelectEntries(d, keep) == SelectSeq(d, LAMBDA e : e.key \in keep)

\* encode without the assert of line 144 (as under python -O): "none_raise"
\* behaves as "none"
EncodeNoAssert(text, allowed, st, m) ==
  LET known == allowed.kind \in {"all", "none", "none_raise", "set"}
      special == CASE allowed.kind = "all" -> st
                   [] allowed.kind = "set" -> SelectEntries(st, allowed.set)
                   [] OTHER -> <<>>
      keys == [i \in 1..Len(special) |-> special[i].key]
  IN  IF ~known THEN [status |-> "ValueError", out |-> <<>>]
      ELSE IF special = <<>> THEN [status |-> "ok", out |-> encode_ordinary(text, m)]
      ELSE [status |-> "ok", out |-> EncodeParts(ReSplit(keys, text), 1, special, m)]

\* encode(text, allowed_special); allowed_special is "all", "none",
\* "none_raise", a set (kind "set") or anything else
encode(text, allowed, st, m) ==
  LET known == allowed.kind \in {"all", "none", "none_raise", "set"}
      refused == allowed.kind = "none_raise"
                 /\ \E i \in 1..Len(st) : Occurs(st[i].key, text)
      special == CASE allowed.kind = "all" -> st
                   [] allowed.kind = "set" -> SelectEntries(st, allowed.set)
                   [] OTHER -> <<>>
      keys == [i \in 1..Len(special) |-> special[i].key]
  IN  IF ~known THEN [status |-> "ValueError", out |-> <<>>]
      ELSE IF refused THEN [status |-> "AssertionError", out |-> <<>>]
      ELSE IF special = <<>> THEN [status |-> "ok", out |-> encode_ordinary(text, m)]
      ELSE [status |-> "ok", out |-> EncodeParts(ReSplit(keys, text), 1, special, m)]

\* decode(ids): the first id that is in neither map raises ValueError; an id
\* that is only in inverse_special_tokens reaches line 90, whose party_bytes
\* is an unbound name
RECURSIVE DecodeFrom(_, _, _, _, _)
DecodeFrom(ids, i, v, inv, part_bytes) ==
  IF i > Len(ids) THEN [status |-> "ok", out |-> Utf8Decode(part_bytes)]
  ELSE IF ids[i] \in DOMAIN v THEN DecodeFrom(ids, i + 1, v, inv, part_bytes \o v[ids[i]])
  ELSE IF DictHas(inv, ids[i]) THEN [status |-> "NameError", out |-> <<>>]
  ELSE [status |-> "ValueError", out |-> <<>>]

decode(ids, v, inv) == DecodeFrom(ids, 1, v, inv, <<>>)

\* {v: k for k, v in special_tokens.items()}
RECURSIVE Invert(_, _, _)
Invert(st, i, inv) ==
  IF i > Len(st) THEN inv ELSE Invert(st, i + 1, DictSet(inv, st[i].val, st[i].key))

\* ------------------------------------------------------ the model file
\* str(n) for n >= 0, as codepoints
RECURSIVE IntToStr(_)
IntToStr(n) == IF n < 10 THEN <<48 + n>> ELSE IntToStr(n \div 10) \o <<48 + (n % 10)>>

IsInt(s) == s # <<>> /\ \A i \in 1..Len(s) : s[i] \in 48..57

\* int(s) for a string of digits
RECURSIVE StrToInt(_)
StrToInt(s) ==
  IF s = <<>> THEN 0 ELSE StrToInt(SubSeq(s, 1, Len(s) - 1)) * 10 + (s[Len(s)] - 48)

\* f.readline(): the line with its "\n", and what follows it
LineEnd(s) == IF \E i \in 1..Len(s) : s[i] = 10
              THEN CHOOSE i \in 1..Len(s) : s[i] = 10 /\ \A j \in 1..(i - 1) : s[j] # 10
              ELSE Len(s)
ReadLine(s) == SubSeq(s, 1, LineEnd(s))
AfterLine(s) == SubSeq(s, LineEnd(s) + 1, Len(s))

\* str.split(): the fields between runs of whitespace
RECURSIVE SplitFields(_, _, _)
SplitFields(s, i, cur) ==
  IF i > Len(s) THEN (IF cur = <<>> THEN <<>> ELSE <<cur>>)
  ELSE IF IsSpace(s[i])
       THEN (IF cur = <<>> THEN <<>> ELSE <<cur>>) \o SplitFields(s, i + 1, <<>>)
       ELSE SplitFields(s, i + 1, Append(cur, s[i]))

Fields(s) == SplitFields(s, 1, <<>>)

\* str.strip() of the pattern line: GPT4_SPLIT_PATTERN ends with a space
StripPattern(p) == IF p = "GPT4_SPLIT_PATTERN" THEN "GPT4_SPLIT_PATTERN.strip()" ELSE p

RECURSIVE SpecialLines(_, _)
SpecialLines(st, i) ==
  IF i > Len(st) THEN <<>>
  ELSE st[i].key \o <<32>> \o IntToStr(st[i].val) \o <<10>> \o SpecialLines(st, i + 1)

RECURSIVE MergeLines(_, _)
MergeLines(m, i) ==
  IF i > Len(m) THEN <<>>
  ELSE IntToStr(m[i].key[1]) \o <<32>> \o IntToStr(m[i].key[2]) \o <<10>>
       \o MergeLines(m, i + 1)

NoFile == [exists |-> FALSE, version |-> "", pattern |-> "", body |-> <<>>]

\* what save writes to the model file: the tag line, the pattern line, and
\* (body) the count of special tokens, their lines and the merge lines
ModelFile(p, st, m) ==
  [exists |-> TRUE, version |-> "bpe v1", pattern |-> p,
   body |-> IntToStr(Len(st)) \o <<10>> \o SpecialLines(st, 1) \o MergeLines(m, 1)]

\* the vocab file loop of save: a token that no merge produced is written by
\* f.wirte, which no file object has
SaveStatus(v, m) ==
  IF \E idx \in DOMAIN v : \A i \in 1..Len(m) : m[i].val # idx
  THEN "AttributeError" ELSE "ok"

\* the merge lines of load, from id idx
RECURSIVE LoadMerges(_, _, _)
LoadMerges(s, idx, m) ==
  IF s = <<>> THEN [status |-> "ok", merges |-> m]
  ELSE LET f == Fields(ReadLine(s))
       IN  IF Len(f) # 2 \/ ~IsInt(f[1]) \/ ~IsInt(f[2])
           THEN [status |-> "ValueError", merges |-> m]
           ELSE LoadMerges(AfterLine(s), idx + 1,
                           DictSet(m, <<StrToInt(f[1]), StrToInt(f[2])>>, idx))

\* the special token lines of load: a line of two fields reaches line 163,
\* whose special_token is an unbound name
LoadSpecials(s, n) ==
  IF n = 0 THEN "ok"
  ELSE IF Len(Fields(ReadLine(s))) # 2 THEN "ValueError"
  ELSE "NameError"

\* what is left of the file after n more calls of readline
RECURSIVE SkipLines(_, _)
SkipLines(s, n) == IF n = 0 THEN s ELSE SkipLines(AfterLine(s), n - 1)

\* load(model_file): status, whether self.pattern was assigned (line 158) before
\* the exception, and the values of the last three assignments
load(f) ==
  LET count == Fields(ReadLine(f.body))
      n == StrToInt(count[1])
      sp == LoadSpecials(AfterLine(f.body), n)
      lm == LoadMerges(SkipLines(AfterLine(f.body), n), NumBytes, <<>>)
      fail(st, assigned) == [status |-> st, assigned |-> assigned, pattern |-> StripPattern(f.pattern),
                             merges |-> <<>>, special_tokens |-> <<>>]
  IN  IF ~f.exists THEN fail("FileNotFoundError", FALSE)
      ELSE IF f.version # "bpe v1" THEN fail("AssertionError", FALSE)
      ELSE IF Len(count) # 1 \/ ~IsInt(count[1]) THEN fail("ValueError", TRUE)
      ELSE IF sp # "ok" THEN fail(sp, TRUE)
      ELSE IF lm.status # "ok" THEN fail(lm.status, TRUE)
      ELSE [status |-> "ok", assigned |-> TRUE, pattern |-> StripPattern(f.pattern),
            merges |-> lm.merges, special_tokens |-> <<>>]

\* ------------------------------------------------------------- inputs
Texts(n) == SeqsUpTo(Alphabet, n)
VocabSizes == (NumBytes - 1)..(NumBytes + MaxMerges)

\* the dicts given to register_special_tokens: none, "<<", and "<" with "<a"
SpecialChoices ==
  { <<>>,
    <<[key |-> <<60, 60>>, val |-> 300]>>,
    <<[key |-> <<60>>, val |-> 300], [key |-> <<60, 97>>, val |-> 301]>> }

AllowedChoices ==
  {[kind |-> k, set |-> {}] : k \in {"all", "none", "none_raise", "other"}}
  \cup {[kind |-> "set", set |-> S] : S \in SUBSET {<<60>>}}

PatternArgs == {"None", "GPT2_SPLIT_PATTERN"}

\* raw bytes, learned ids, special ids and an id nobody assigns
DecodeIds == {97, 195, 169, 256, 257, 300, 301, 999}
ChunkByteSet == UNION {{Utf8Char(c)[i] : i \in 1..Len(Utf8Char(c))} : c \in Alphabet}
MergeIdSet == {97, 98, 256}

\* -------------------------------------------------------------- state
VARIABLES
  pattern,                  \* self.pattern
  compiled_pattern,         \* self.compiled_pattern, by the pattern it was compiled from
  merges,                   \* self.merges: entries (pair, id)
  vocab,                    \* self.vocab: id -> bytes
  special_tokens,           \* self.special_tokens: entries (string, id)
  inverse_special_tokens,   \* self.inverse_special_tokens: entries (id, string)
  file,                     \* the model file save wrote
  call                      \* the call that returned last, until its caller goes on

vars == <<pattern, compiled_pattern, merges, vocab, special_tokens,
          inverse_special_tokens, file, call>>
tokenizer == <<pattern, compiled_pattern, merges, vocab, special_tokens,
               inverse_special_tokens>>

Idle == [op |-> "idle", status |-> "ok", text |-> <<>>, ids |-> <<>>, size |-> 0,
         allowed |-> [kind |-> "none", set |-> {}], specials |-> <<>>,
         pair |-> <<0, 0>>, out |-> <<>>, steps |-> <<>>]

\* RegexTokenizer(GPT2_SPLIT_PATTERN), nothing saved yet
Init ==
  /\ pattern = "GPT2_SPLIT_PATTERN"
  /\ compiled_pattern = "GPT2_SPLIT_PATTERN"
  /\ merges = <<>>
  /\ vocab = _build_vocab(<<>>, <<>>)
  /\ special_tokens = <<>>
  /\ inverse_special_tokens = <<>>
  /\ file = NoFile
  /\ call = Idle

\* tok = RegexTokenizer(p): when re.compile raises, tok stays the old instance
New ==
  /\ call.op = "idle"
  /\ \E p \in PatternArgs :
       LET pat == IF p = "None" THEN "GPT4_SPLIT_PATTERN" ELSE p
       IN  IF Compiles(pat)
           THEN /\ pattern' = pat
                /\ compiled_pattern' = pat
                /\ merges' = <<>>
                /\ vocab' = _build_vocab(<<>>, <<>>)
                /\ special_tokens' = <<>>
                /\ inverse_special_tokens' = <<>>
                /\ call' = [Idle EXCEPT !.op = "__init__"]
           ELSE /\ call' = [Idle EXCEPT !.op = "__init__", !.status = "regex.error"]
                /\ UNCHANGED tokenizer
  /\ UNCHANGED file

Train(maxlen) ==
  /\ call.op = "idle"
  /\ \E text \in Texts(maxlen), vocab_size \in VocabSizes :
       LET r == train(text, vocab_size)
       IN  /\ call' = [Idle EXCEPT !.op = "train", !.status = r.status,
                                   !.text = text, !.size = vocab_size]
           /\ IF r.status = "ok"
              THEN merges' = r.merges /\ vocab' = r.vocab
              ELSE UNCHANGED <<merges, vocab>>
  /\ UNCHANGED <<pattern, compiled_pattern, special_tokens, inverse_special_tokens, file>>

RegisterSpecialTokens ==
  /\ call.op = "idle"
  /\ \E st \in SpecialChoices :
       /\ special_tokens' = st
       /\ inverse_special_tokens' = Invert(st, 1, <<>>)
       /\ call' = [Idle EXCEPT !.op = "register_special_tokens", !.specials = st]
  /\ UNCHANGED <<pattern, compiled_pattern, merges, vocab, file>>

EncodeOrdinary ==
  /\ call.op = "idle"
  /\ \E text \in Texts(MaxTextLen) :
       call' = [Idle EXCEPT !.op = "encode_ordinary", !.text = text,
                            !.out = encode_ordinary(text, merges)]
  /\ UNCHANGED <<tokenizer, file>>

Encode ==
  /\ call.op = "idle"
  /\ \E text \in Texts(MaxTextLen), allowed \in AllowedChoices :
       LET r == encode(text, allowed, special_tokens, merges)
       IN  call' = [Idle EXCEPT !.op = "encode", !.status = r.status, !.text = text,
                                !.allowed = allowed, !.out = r.out]
  /\ UNCHANGED <<tokenizer, file>>

EncodeChunk ==
  /\ call.op = "idle"
  /\ \E bs \in SeqsUpTo(ChunkByteSet, MaxChunkLen) :
       call' = [Idle EXCEPT !.op = "_encode_chunk", !.ids = bs,
                            !.steps = ChunkSteps(bs, merges),
                            !.out = _encode_chunk(bs, merges)]
  /\ UNCHANGED <<tokenizer, file>>

Decode ==
  /\ call.op = "idle"
  /\ \E ids \in SeqsUpTo(DecodeIds, MaxIdsLen) :
       LET r == decode(ids, vocab, inverse_special_tokens)
       IN  call' = [Idle EXCEPT !.op = "decode", !.status = r.status, !.ids = ids,
                                !.out = r.out]
  /\ UNCHANGED <<tokenizer, file>>

\* save(prefix): the model file is written and closed before the vocab file
Save ==
  /\ call.op = "idle"
  /\ file' = ModelFile(pattern, special_tokens, merges)
  /\ call' = [Idle EXCEPT !.op = "save", !.status = SaveStatus(vocab, merges)]
  /\ UNCHANGED tokenizer

\* load(prefix + ".model")
Load ==
  /\ call.op = "idle"
  /\ LET r == load(file)
     IN  /\ call' = [Idle EXCEPT !.op = "load", !.status = r.status]
         /\ pattern' = IF r.assigned THEN r.pattern ELSE pattern
         /\ IF r.status = "ok"
            THEN /\ merges' = r.merges
                 /\ special_tokens' = r.special_tokens
                 /\ vocab' = _build_vocab(r.merges, r.special_tokens)
            ELSE UNCHANGED <<merges, special_tokens, vocab>>
  /\ UNCHANGED <<compiled_pattern, inverse_special_tokens, file>>

\* merge(ids, pair, idx), called on its own
Merge ==
  /\ call.op = "idle"
  /\ \E ids \in SeqsUpTo(MergeIdSet, MaxMergeLen), a \in MergeIdSet, b \in MergeIdSet,
        idx \in {256, 257} :
       call' = [Idle EXCEPT !.op = "merge", !.ids = ids, !.pair = <<a, b>>,
                            !.size = idx, !.out = merge(ids, <<a, b>>, idx)]
  /\ UNCHANGED <<tokenizer, file>>

\* the caller goes on to its next call
Return ==
  /\ call.op # "idle"
  /\ call' = Idle
  /\ UNCHANGED <<tokenizer, file>>

Next ==
  \/ New
  \/ Train(MaxTrainLen)
  \/ RegisterSpecialTokens
  \/ EncodeOrdinary
  \/ Encode
  \/ EncodeChunk
  \/ Decode
  \/ Return

Spec == Init /\ [][Next]_vars

NextPersist ==
  \/ New
  \/ Train(MaxPersistLen)
  \/ RegisterSpecialTokens
  \/ Save
  \/ Load
  \/ Return

SpecPersist == Init /\ [][NextPersist]_vars

NextMerge ==
  \/ Merge
  \/ Return

SpecMerge == Init /\ [][NextMerge]_vars

\* ============================================================== claims
Learned(id) == id >= NumBytes /\ \E i \in 1..Len(merges) : merges[i].val = id
HasSpecial(text) == \E i \in 1..Len(special_tokens) : Occurs(special_tokens[i].key, text)
Before(t, p) == SubSeq(t, 1, p - 1)
After(t, p, key) == SubSeq(t, p + Len(key), Len(t))

\* C1: for every state reached by train calls and every text that holds no
\* registered special-token string, decode(encode_ordinary(text)) is the text.
C1_RoundTrip ==
  (call.op = "encode_ordinary" /\ ~HasSpecial(call.text))
    => decode(call.out, vocab, inverse_special_tokens) = [status |-> "ok", out |-> call.text]

\* a trained tokenizer with special tokens registered has encoded a text with a
\* two-byte character into a list that holds a learned id
C1_Witness ==
  /\ call.op = "encode_ordinary"
  /\ ~HasSpecial(call.text)
  /\ special_tokens # <<>>
  /\ \E i \in 1..Len(call.text) : call.text[i] = 233
  /\ \E i \in 1..Len(call.out) : Learned(call.out[i])

\* C2 as claimed: under "all", for a registered S -> n and any A and B that hold
\* no registered special-token string, encode(A + S + B) is
\* encode_ordinary(A) ++ [n] ++ encode_ordinary(B).
C2_AllPolicyAnySplit ==
  (call.op = "encode" /\ call.allowed.kind = "all")
    => \A k \in 1..Len(special_tokens), p \in 1..Len(call.text) :
         LET S == special_tokens[k].key
             A == Before(call.text, p)
             B == After(call.text, p, S)
         IN  (StartsAt(call.text, p, S) /\ ~HasSpecial(A) /\ ~HasSpecial(B))
               => call.out = encode_ordinary(A, merges) \o <<special_tokens[k].val>>
                             \o encode_ordinary(B, merges)

\* C2 amended: the same, when moreover no registered special-token string
\* starts in A + S + B before offset |A| and S is the first registered token, in
\* registration order, that matches at offset |A|.
C2_AllPolicyLeftmostSplit ==
  (call.op = "encode" /\ call.allowed.kind = "all")
    => \A k \in 1..Len(special_tokens), p \in 1..Len(call.text) :
         LET S == special_tokens[k].key
             A == Before(call.text, p)
             B == After(call.text, p, S)
         IN  (/\ StartsAt(call.text, p, S)
              /\ ~HasSpecial(B)
              /\ \A j \in 1..Len(special_tokens), q \in 1..(p - 1) :
                   ~StartsAt(call.text, q, special_tokens[j].key)
              /\ \A j \in 1..(k - 1) : ~StartsAt(call.text, p, special_tokens[j].key))
               => call.out = encode_ordinary(A, merges) \o <<special_tokens[k].val>>
                             \o encode_ordinary(B, merges)

\* encode under "all" has split a text at a special token that follows a
\* non-empty ordinary part encoded with a learned id
C2_Witness ==
  /\ call.op = "encode"
  /\ call.allowed.kind = "all"
  /\ call.status = "ok"
  /\ \E k \in 1..Len(special_tokens), p \in 2..Len(call.text) :
       /\ StartsAt(call.text, p, special_tokens[k].key)
       /\ ~HasSpecial(After(call.text, p, special_tokens[k].key))
       /\ \A j \in 1..Len(special_tokens), q \in 1..(p - 1) :
            ~StartsAt(call.text, q, special_tokens[j].key)
       /\ \A j \in 1..(k - 1) : ~StartsAt(call.text, p, special_tokens[j].key)
       /\ call.out[Len(call.out)] = special_tokens[k].val
       /\ Learned(call.out[1])

\* C3: decode succeeds when every id is in the vocabulary or in the
\* special-token reverse map, resolving each id in the vocabulary first and
\* in the reverse map otherwise, and fails with the invalid-token-id error
\* (ValueError) exactly when some id is in neither.
C3_DecodeResolution ==
  call.op = "decode"
    => LET known(id) == id \in DOMAIN vocab \/ DictHas(inverse_special_tokens, id)
           bytes(id) == IF id \in DOMAIN vocab THEN vocab[id]
                        ELSE Utf8Encode(DictGet(inverse_special_tokens, id))
           Joined[i \in 0..Len(call.ids)] ==
             IF i = 0 THEN <<>> ELSE Joined[i - 1] \o bytes(call.ids[i])
           allKnown == \A i \in 1..Len(call.ids) : known(call.ids[i])
       IN  /\ allKnown => (call.status = "ok" /\ call.out = Utf8Decode(Joined[Len(call.ids)]))
           /\ ~allKnown => call.status = "ValueError"

\* C4: after train(text, 256 + k) returns, the merge table has k entries, the
\* i-th maps to 256 + i, the k pairs are distinct, and the vocabulary has
\* 256 + k entries plus the registered special tokens.
C4_MergeMonotonicity ==
  (call.op = "train" /\ call.status = "ok")
    => LET k == call.size - NumBytes
       IN  /\ Len(merges) = k
           /\ \A i \in 1..k : merges[i].val = NumBytes + i - 1
           /\ \A i, j \in 1..k : i # j => merges[i].key # merges[j].key
           /\ Cardinality(DOMAIN vocab) = NumBytes + k + Len(special_tokens)

\* C5: in every state, len(vocab) = 256 + |merges| + |special_tokens|.
C5_VocabularySize ==
  Cardinality(DOMAIN vocab) = NumBytes + Len(merges) + Len(special_tokens)

\* C6: save completes, and load of the saved model file completes and leaves
\* the merge table, the pattern and the special tokens the saved ones (they
\* serialise to the file that was saved).
C6_PersistenceRoundTrip ==
  /\ call.op = "save" => call.status = "ok"
  /\ (call.op = "load" /\ file.exists)
       => (call.status = "ok" /\ ModelFile(pattern, special_tokens, merges) = file)

\* C7: train(text, vocab_size) returns without raising for every text and
\* every vocab_size >= 256.
C7_TrainNeverRaises ==
  (call.op = "train" /\ call.size >= NumBytes) => call.status = "ok"

\* C8: encode under "none_raise" fails, with no ids and the tokenizer
\* unchanged, when a registered special-token string occurs in the text, and
\* returns encode_ordinary(text) otherwise.
C8_RejectPolicy ==
  [][(call'.op = "encode" /\ call'.allowed.kind = "none_raise")
       => /\ tokenizer' = tokenizer
          /\ IF HasSpecial(call'.text)
             THEN call'.status # "ok" /\ call'.out = <<>>
             ELSE call'.status = "ok" /\ call'.out = encode_ordinary(call'.text, merges)]_vars

\* encode under "none_raise" has refused a text that holds a registered token
C8_Witness ==
  /\ call.op = "encode"
  /\ call.allowed.kind = "none_raise"
  /\ HasSpecial(call.text)
  /\ call.status = "AssertionError"
  /\ merges # <<>>

PairsOf(ids) == {<<ids[i], ids[i + 1]>> : i \in 1..(Len(ids) - 1)}
Mergeable(ids) == PairsOf(ids) \cap DictKeys(merges)

\* C9: every step of _encode_chunk applies, of the adjacent pairs of the
\* current list that are in the merge table, the one of the lowest id, and
\* the encoding stops exactly when no adjacent pair is in the merge table.
C9_PriorityCorrectness ==
  call.op = "_encode_chunk"
    => /\ call.steps[1] = call.ids
       /\ call.out = call.steps[Len(call.steps)]
       /\ Mergeable(call.out) = {}
       /\ \A j \in 1..(Len(call.steps) - 1) :
            \E p \in Mergeable(call.steps[j]) :
              /\ \A q \in Mergeable(call.steps[j]) : DictGet(merges, p) <= DictGet(merges, q)
              /\ call.steps[j + 1] = merge(call.steps[j], p, DictGet(merges, p))

\* _encode_chunk has applied a merge whose pair stands to the right of another
\* pair of the merge table, of a higher id
C9_Witness ==
  /\ call.op = "_encode_chunk"
  /\ Len(call.steps) >= 2
  /\ \E i1, i2 \in 1..(Len(call.ids) - 1) :
       /\ i1 < i2
       /\ DictHas(merges, <<call.ids[i1], call.ids[i1 + 1]>>)
       /\ DictHas(merges, <<call.ids[i2], call.ids[i2 + 1]>>)
       /\ DictGet(merges, <<call.ids[i2], call.ids[i2 + 1]>>)
            < DictGet(merges, <<call.ids[i1], call.ids[i1 + 1]>>)

\* the rewrite the Merge Engine is to compute, by the head of the list
RECURSIVE GreedyRewrite(_, _, _)
GreedyRewrite(ids, pair, idx) ==
  IF ids = <<>> THEN <<>>
  ELSE IF Len(ids) >= 2 /\ ids[1] = pair[1] /\ ids[2] = pair[2]
       THEN <<idx>> \o GreedyRewrite(SubSeq(ids, 3, Len(ids)), pair, idx)
       ELSE <<ids[1]>> \o GreedyRewrite(Tail(ids), pair, idx)

\* C10: merge(ids, (a, b), idx) is the greedy left-to-right rewrite: each
\* occurrence of a, b that does not overlap an earlier one becomes idx, and
\* the other elements keep their order.
C10_MergeEngine ==
  call.op = "merge" => call.out = GreedyRewrite(call.ids, call.pair, call.size)

\* merge has rewritten [a, a, a] for the pair (a, a) to [idx, a]
C10_Witness ==
  /\ call.op = "merge"
  /\ call.pair = <<97, 97>>
  /\ call.ids = <<97, 97, 97>>
  /\ call.out = <<call.size, 97>>

====
